---- MODULE Spec2Model ----
(***************************************************************************)
(* Time zones and zoned date-times of the datetime crate (src/src/zoned.rs) *)
(*                                                                         *)
(* Every operation of zoned.rs is a pure function of its arguments, so the *)
(* state machine is a caller: from "idle" it calls one constructor or      *)
(* parser with arguments drawn from bounded sets and records the call and  *)
(* what it returned; a returned ZonedDateTime can then be read through a   *)
(* field accessor; Return goes back to "idle".                             *)
(*                                                                         *)
(* A LocalDateTime is [days, sod, ms]: whole days since 1970-01-01, second *)
(* of the day (0..86399) and millisecond.  Its instant is                  *)
(* days * 86400 + sod seconds, a signed 64-bit number that is never        *)
(* formed as one integer here, because it need not fit in the 32 bits of   *)
(* a TLC integer.                                                          *)
(***************************************************************************)
EXTENDS Integers, Sequences, FiniteSets

VARIABLES pc, call, ret

vars == <<pc, call, ret>>

(***************************************************************************)
(* Program constants                                                       *)
(***************************************************************************)
\* i32::MAX, the largest value of the `as i32` cast in adjust_variable
MaxI32 == 2147483647
\* i8::MIN and i8::MAX, the type of the hours and minutes arguments
MinI8 == -128
MaxI8 == 127
\* seconds in a day, the magnitude limit of of_seconds
DaySeconds == 86400
\* 675 * 2^7 = 86400; 2^25 * 2^7 = 2^32
DayOddPart == 675
Pow24 == 16777216
Pow25 == 33554432
Pow7 == 128

MinI32 == (-MaxI32) - 1

(***************************************************************************)
(* Bounds of the model                                                     *)
(***************************************************************************)
\* of_seconds is called with every n within Slack of 0, +-86400 and the i32 limits
Slack == 3
\* digit strings handed over by the zone grammar have at most MaxDigits digits
MaxDigits == 3
\* decoded transition tables have at most MaxTransitions records
MaxTransitions == 3

(***************************************************************************)
(* Results                                                                 *)
(***************************************************************************)
Ok(v) == [ok |-> TRUE, val |-> v]
Err(e) == [ok |-> FALSE, err |-> e]

\* enum Error
OutOfRange == "OutOfRange"
SignMismatch == "SignMismatch"

\* enum ParseError
ParseError_Zone(e) == [variant |-> "Zone", of |-> e]
ParseError_Date(e) == [variant |-> "Date", of |-> e]
ParseError_Number(e) == [variant |-> "Number", of |-> e]
ParseError_Parse(e) == [variant |-> "Parse", of |-> e]

(***************************************************************************)
(* enum TimeZone.  One record shape for the three variants; a variant      *)
(* reads only its own field.                                               *)
(***************************************************************************)
UTC == [tag |-> "UTC", offset |-> 0, transitions |-> <<>>]
FixedOffset(o) == [tag |-> "FixedOffset", offset |-> o, transitions |-> <<>>]
VariableOffset(ts) == [tag |-> "VariableOffset", offset |-> 0, transitions |-> ts]

\* tz::Transition, as far as zoned.rs reads it: timestamp and local_time_type.offset
Transition(t, o) == [timestamp |-> t, offset |-> o]

(***************************************************************************)
(* LocalDateTime and the operations zoned.rs uses on it                    *)
(***************************************************************************)
LocalDateTime_new(date, time) == [days |-> date, sod |-> time.sod, ms |-> time.ms]

\* local + Duration::of(seconds)
Plus(local, seconds) ==
    LET total == local.sod + seconds
    IN  [days |-> local.days + (total \div DaySeconds),
         sod |-> total % DaySeconds,
         ms |-> local.ms]

\* the low 32 bits of days * 86400, as a signed number
DayStart32(days) ==
    LET x == (days * DayOddPart) % Pow25
    IN  Pow7 * (IF x >= Pow24 THEN x - Pow25 ELSE x)

\* local.to_instant().seconds() as i32: the 64-bit instant wrapped to 32 bits
seconds_as_i32(local) ==
    LET base == DayStart32(local.days)
    IN  IF base > MaxI32 - local.sod
        THEN ((base - MaxI32) - 1) + ((local.sod - MaxI32) - 1)
        ELSE base + local.sod

\* TimePiece and DatePiece of a LocalDateTime
local_hour(local) == local.sod \div 3600
local_minute(local) == (local.sod % 3600) \div 60
local_second(local) == local.sod % 60
local_millisecond(local) == local.ms
\* 1970-01-01 was a Thursday; Sunday is 0
local_weekday(local) == (local.days + 4) % 7

\* the proleptic Gregorian date of a day number: year, month 1..12, day of
\* the month and day of the year, both from 1
civil(days) ==
    LET z == days + 719468
        era == z \div 146097
        doe == z - era * 146097
        yoe == (doe - doe \div 1460 + doe \div 36524 - doe \div 146096) \div 365
        doy == doe - (365 * yoe + yoe \div 4 - yoe \div 100)
        mp == (5 * doy + 2) \div 153
        m == IF mp < 10 THEN mp + 3 ELSE mp - 9
        y == yoe + era * 400 + (IF m <= 2 THEN 1 ELSE 0)
        leap == IF y % 4 = 0 /\ (y % 100 # 0 \/ y % 400 = 0) THEN 1 ELSE 0
    IN  [year |-> y,
         month |-> m,
         day |-> doy - (153 * mp + 2) \div 5 + 1,
         yearday |-> IF m >= 3 THEN doy + 60 + leap ELSE doy - 305]

local_year(local) == civil(local.days).year
local_month(local) == civil(local.days).month
local_day(local) == civil(local.days).day
local_yearday(local) == civil(local.days).yearday

(***************************************************************************)
(* impl TimeZone                                                           *)
(***************************************************************************)
adjust_utc(local) == local

\* adjust_fixed with the offset taken away
adjust_fixed_subtracting(offset, local) == Plus(local, -offset)

adjust_fixed(offset, local) == Plus(local, offset)

\* transitions.iter().find(|t| t.timestamp < unix_timestamp)
RECURSIVE find_before(_, _)
find_before(transitions, unix_timestamp) ==
    IF transitions = <<>> THEN [some |-> FALSE]
    ELSE IF Head(transitions).timestamp < unix_timestamp
         THEN [some |-> TRUE, val |-> Head(transitions)]
         ELSE find_before(Tail(transitions), unix_timestamp)

adjust_variable(transitions, local) ==
    LET unix_timestamp == seconds_as_i32(local)
        found == find_before(transitions, unix_timestamp)
    IN  IF found.some THEN Plus(local, found.val.offset) ELSE local

adjust(zone, local) ==
    CASE zone.tag = "UTC" -> adjust_utc(local)
      [] zone.tag = "FixedOffset" -> adjust_fixed(zone.offset, local)
      [] zone.tag = "VariableOffset" -> adjust_variable(zone.transitions, local)

at(zone, local) == [local |-> local, time_zone |-> zone]

\* x placed in front of the first record of a descending sequence that is not
\* greater than it
RECURSIVE insert_desc(_, _)
insert_desc(x, sorted) ==
    IF sorted = <<>> THEN <<x>>
    ELSE IF Head(sorted).timestamp > x.timestamp
         THEN <<Head(sorted)>> \o insert_desc(x, Tail(sorted))
         ELSE <<x>> \o sorted

\* transitions.sort_by(|b, a| a.timestamp.cmp(&b.timestamp)): a stable sort,
\* greatest timestamp first
RECURSIVE sort_by_timestamp_desc(_)
sort_by_timestamp_desc(transitions) ==
    IF transitions = <<>> THEN <<>>
    ELSE insert_desc(Head(transitions), sort_by_timestamp_desc(Tail(transitions)))

\* zoneinfo without the sort
zoneinfo_file_order(file) ==
    IF file.ok THEN Ok(VariableOffset(file.val)) ELSE Err(file.err)

\* file is what opening, reading and decoding the path gives: Err(e) from the
\* first of the three that fails, or Ok(the decoded transitions, in file order)
zoneinfo(file) ==
    IF file.ok THEN Ok(VariableOffset(sort_by_timestamp_desc(file.val)))
    ELSE Err(file.err)

localtime(file) == zoneinfo(file)

\* RangeExt::is_within(&self, start..end)
is_within(x, start, end) == x >= start /\ x < end

\* of_seconds with the end of the range one too low
of_seconds_short_range(seconds) ==
    IF is_within(seconds, -DaySeconds, DaySeconds)
    THEN Ok(FixedOffset(seconds))
    ELSE Err(OutOfRange)

of_seconds(seconds) ==
    IF is_within(seconds, -DaySeconds, DaySeconds + 1)
    THEN Ok(FixedOffset(seconds))
    ELSE Err(OutOfRange)

\* of_hours_and_minutes with the range checks ahead of the sign check
of_hours_and_minutes_range_first(hours, minutes) ==
    IF hours <= -24 \/ hours >= 24
    THEN Err(OutOfRange)
    ELSE IF minutes <= -60 \/ minutes >= 60
    THEN Err(OutOfRange)
    ELSE IF (hours > 0 /\ minutes < 0) \/ (hours < 0 /\ minutes > 0)
    THEN Err(SignMismatch)
    ELSE of_seconds(hours * 24 + minutes * 60)

of_hours_and_minutes(hours, minutes) ==
    IF (hours > 0 /\ minutes < 0) \/ (hours < 0 /\ minutes > 0)
    THEN Err(SignMismatch)
    ELSE IF hours <= -24 \/ hours >= 24
    THEN Err(OutOfRange)
    ELSE IF minutes <= -60 \/ minutes >= 60
    THEN Err(OutOfRange)
    ELSE of_seconds(hours * 24 + minutes * 60)

\* str::parse::<i8>() of a string of decimal digits
RECURSIVE parse_digits(_, _)
parse_digits(digits, acc) ==
    IF digits = <<>> THEN Ok(acc)
    ELSE IF acc * 10 + Head(digits) > MaxI8 THEN Err("PosOverflow")
    ELSE parse_digits(Tail(digits), acc * 10 + Head(digits))

parse_i8(input) == IF input = <<>> THEN Err("Empty") ELSE parse_digits(input, 0)

\* Option<&str>
None == [some |-> FALSE, val |-> <<>>]
Some(s) == [some |-> TRUE, val |-> s]

\* enum parse::ZoneFields
Zulu == [kind |-> "Zulu", sign |-> "", hours |-> <<>>, minutes |-> None]
Offset(sign, hours, minutes) ==
    [kind |-> "Offset", sign |-> sign, hours |-> hours, minutes |-> minutes]

\* result.map_err(ParseError::Zone)
map_err_Zone(result) == IF result.ok THEN result ELSE Err(ParseError_Zone(result.err))

\* the unreachable!() arm
Panic == [ok |-> FALSE, err |-> [variant |-> "Panic", of |-> "unreachable"]]

\* from_fields with the sign applied to the hours alone
from_fields_sign_on_hours(fields) ==
    IF fields.kind = "Zulu" THEN Ok(UTC)
    ELSE IF fields.sign \notin {"+", "-"} THEN Panic
    ELSE LET sgn == IF fields.sign = "+" THEN 1 ELSE -1
             h == parse_i8(fields.hours)
             m == parse_i8(fields.minutes.val)
         IN  IF ~h.ok THEN Err(ParseError_Number(h.err))
             ELSE IF ~fields.minutes.some
             THEN map_err_Zone(of_hours_and_minutes(sgn * h.val, 0))
             ELSE IF ~m.ok THEN Err(ParseError_Number(m.err))
             ELSE map_err_Zone(of_hours_and_minutes(sgn * h.val, m.val))

from_fields(fields) ==
    IF fields.kind = "Zulu" THEN Ok(UTC)
    ELSE IF fields.sign \notin {"+", "-"} THEN Panic
    ELSE LET sgn == IF fields.sign = "+" THEN 1 ELSE -1
             h == parse_i8(fields.hours)
             m == parse_i8(fields.minutes.val)
         IN  IF ~h.ok THEN Err(ParseError_Number(h.err))
             ELSE IF ~fields.minutes.some
             THEN map_err_Zone(of_hours_and_minutes(sgn * h.val, 0))
             ELSE IF ~m.ok THEN Err(ParseError_Number(m.err))
             ELSE map_err_Zone(of_hours_and_minutes(sgn * h.val, sgn * m.val))

\* impl FromStr for TimeZone.  input is what parse_iso_8601_zone makes of the
\* text: Err(e) or Ok(fields)
TimeZone_from_str(input) ==
    IF input.ok THEN from_fields(input.val) ELSE Err(ParseError_Parse(input.err))

\* ZonedDateTime::from_str with the zone built ahead of the date and the time
ZonedDateTime_from_str_zone_first(input) ==
    IF ~input.ok THEN Err(ParseError_Parse(input.err))
    ELSE LET date == input.val[1]
             time == input.val[2]
             zone == from_fields(input.val[3])
         IN  IF ~zone.ok THEN zone
             ELSE IF ~date.ok THEN Err(ParseError_Date(date.err))
             ELSE IF ~time.ok THEN Err(ParseError_Date(time.err))
             ELSE Ok([local |-> LocalDateTime_new(date.val, time.val),
                      time_zone |-> zone.val])

\* impl FromStr for ZonedDateTime.  input is what parse_iso_8601_date_time_zone
\* makes of the text: Err(e), or Ok of three field groups; a date (time) field
\* group is what LocalDate::from_fields (LocalTime::from_fields) returns for it
ZonedDateTime_from_str(input) ==
    IF ~input.ok THEN Err(ParseError_Parse(input.err))
    ELSE LET date == input.val[1]
             time == input.val[2]
             zone == from_fields(input.val[3])
         IN  IF ~date.ok THEN Err(ParseError_Date(date.err))
             ELSE IF ~time.ok THEN Err(ParseError_Date(time.err))
             ELSE IF ~zone.ok THEN zone
             ELSE Ok([local |-> LocalDateTime_new(date.val, time.val),
                      time_zone |-> zone.val])

\* impl DatePiece for ZonedDateTime, impl TimePiece for ZonedDateTime
year(z) == local_year(adjust(z.time_zone, z.local))
month(z) == local_month(adjust(z.time_zone, z.local))
day(z) == local_day(adjust(z.time_zone, z.local))
yearday(z) == local_yearday(adjust(z.time_zone, z.local))
weekday(z) == local_weekday(adjust(z.time_zone, z.local))
hour(z) == local_hour(adjust(z.time_zone, z.local))
minute(z) == local_minute(adjust(z.time_zone, z.local))
second(z) == local_second(adjust(z.time_zone, z.local))
millisecond(z) == local_millisecond(adjust(z.time_zone, z.local))

(***************************************************************************)
(* Arguments the caller draws from                                         *)
(***************************************************************************)
SeqsUpTo(S, n) == UNION {[1..k -> S] : k \in 0..n}

I8 == MinI8..MaxI8

SecondsInputs ==
    UNION {(c - Slack)..(c + Slack) : c \in {-DaySeconds, 0, DaySeconds}}
    \cup {MinI32 + k : k \in 0..Slack} \cup {MaxI32 - k : k \in 0..Slack}
    \cup {1234, 100000}

Digits == {0, 3, 5, 9}
DigitStrings == SeqsUpTo(Digits, MaxDigits)

ZoneFieldsInputs ==
    {Zulu} \cup {Offset(sign, h, m) : sign \in {"+", "-"}, h \in DigitStrings,
                                     m \in {None} \cup {Some(x) : x \in DigitStrings}}

\* zone field groups of combined timestamps, "+02:00" among them
StampZoneFields ==
    {Zulu} \cup {Offset(sign, h, m) :
                    sign \in {"+", "-"},
                    h \in {<<>>, <<0, 2>>, <<0, 5>>, <<9, 9>>},
                    m \in {None, Some(<<>>), Some(<<0, 0>>), Some(<<3, 0>>), Some(<<9, 9>>)}}

\* 1970-01-01 and 2021-06-01
StampDates == {Err("date")} \cup {Ok(d) : d \in {0, 18779}}
StampTimes == {Err("time")} \cup {Ok([sod |-> h * 3600, ms |-> 0]) : h \in 0..23}
StampInputs ==
    {Err("grammar")}
    \cup {Ok(<<d, t, z>>) : d \in StampDates, t \in StampTimes, z \in StampZoneFields}

ZoneTextInputs == {Err("grammar")} \cup {Ok(f) : f \in ZoneFieldsInputs}

TransitionInputs ==
    {Transition(t, o) : t \in {-DaySeconds, 0, DaySeconds}, o \in {-3600, 7200}}
Tables == SeqsUpTo(TransitionInputs, MaxTransitions)
FileInputs == {Err("open"), Err("read"), Err("decode")} \cup {Ok(tb) : tb \in Tables}

\* days -49711, 24855 and 49710 hold the instants -2^32, 2^31 and 2^32 - 23296
Locals ==
    {[days |-> d, sod |-> s, ms |-> m] :
        d \in {-49711, -1, 0, 1, 24855, 49710}, s \in {0, 11648, 86399}, m \in {0, 999}}

\* zones a caller can hold: what the constructors returned
Zones ==
    {UTC}
    \cup {of_seconds(n).val : n \in {x \in SecondsInputs : of_seconds(x).ok}}
    \cup {zoneinfo(f).val : f \in {x \in FileInputs : x.ok}}

(***************************************************************************)
(* The caller                                                              *)
(***************************************************************************)
NoCall == [op |-> "none", args |-> <<>>]

Init == pc = "idle" /\ call = NoCall /\ ret = 0

Returns(op, args, value) ==
    /\ pc' = "done"
    /\ call' = [op |-> op, args |-> args]
    /\ ret' = value

OfSeconds ==
    /\ pc = "idle"
    /\ \E n \in SecondsInputs : Returns("of_seconds", <<n>>, of_seconds(n))

OfHoursAndMinutes ==
    /\ pc = "idle"
    /\ \E h \in I8, m \in I8 :
          Returns("of_hours_and_minutes", <<h, m>>, of_hours_and_minutes(h, m))

FromFields ==
    /\ pc = "idle"
    /\ \E f \in ZoneFieldsInputs : Returns("from_fields", <<f>>, from_fields(f))

TimeZoneFromStr ==
    /\ pc = "idle"
    /\ \E i \in ZoneTextInputs :
          Returns("TimeZone_from_str", <<i>>, TimeZone_from_str(i))

Zoneinfo ==
    /\ pc = "idle"
    /\ \E f \in FileInputs : Returns("zoneinfo", <<f>>, zoneinfo(f))

Localtime ==
    /\ pc = "idle"
    /\ \E f \in FileInputs : Returns("localtime", <<f>>, localtime(f))

\* the ZonedDateTime is recorded as Ok(z), the shape from_str returns it in
At ==
    /\ pc = "idle"
    /\ \E zone \in Zones, local \in Locals :
          Returns("at", <<zone, local>>, Ok(at(zone, local)))

\* the private resolver the accessors call
Adjust ==
    /\ pc = "idle"
    /\ \E zone \in Zones, local \in Locals :
          Returns("adjust", <<zone, local>>, adjust(zone, local))

ZonedDateTimeFromStr ==
    /\ pc = "idle"
    /\ \E i \in StampInputs :
          Returns("ZonedDateTime_from_str", <<i>>, ZonedDateTime_from_str(i))

\* the last call returned a ZonedDateTime
HasZoned == pc = "done" /\ call.op \in {"at", "ZonedDateTime_from_str"} /\ ret.ok

Reads(op, value) ==
    /\ pc' = "read"
    /\ call' = [op |-> op, args |-> <<ret.val>>]
    /\ ret' = value

Year ==
    /\ HasZoned
    /\ Reads("year", year(ret.val))

Month ==
    /\ HasZoned
    /\ Reads("month", month(ret.val))

Day ==
    /\ HasZoned
    /\ Reads("day", day(ret.val))

Yearday ==
    /\ HasZoned
    /\ Reads("yearday", yearday(ret.val))

Weekday ==
    /\ HasZoned
    /\ Reads("weekday", weekday(ret.val))

Hour ==
    /\ HasZoned
    /\ Reads("hour", hour(ret.val))

Minute ==
    /\ HasZoned
    /\ Reads("minute", minute(ret.val))

Second ==
    /\ HasZoned
    /\ Reads("second", second(ret.val))

Millisecond ==
    /\ HasZoned
    /\ Reads("millisecond", millisecond(ret.val))

Return == pc \in {"done", "read"} /\ pc' = "idle" /\ call' = NoCall /\ ret' = 0

Next ==
    \/ OfSeconds
    \/ OfHoursAndMinutes
    \/ FromFields
    \/ TimeZoneFromStr
    \/ Zoneinfo
    \/ Localtime
    \/ At
    \/ Adjust
    \/ ZonedDateTimeFromStr
    \/ Year
    \/ Month
    \/ Day
    \/ Yearday
    \/ Weekday
    \/ Hour
    \/ Minute
    \/ Second
    \/ Millisecond
    \/ Return

Spec == Init /\ [][Next]_vars

(***************************************************************************)
(* Properties                                                              *)
(***************************************************************************)
Called(op) == pc = "done" /\ call.op = op

Abs(x) == IF x < 0 THEN -x ELSE x

\* C1: of_seconds(n) returns FixedOffset with offset n exactly when
\* -86400 <= n <= 86400, and Error::OutOfRange for every other n.
C1_OfSecondsRange ==
    Called("of_seconds") =>
        LET n == call.args[1]
        IN  IF -86400 <= n /\ n <= 86400
            THEN ret.ok /\ ret.val = FixedOffset(n)
            ELSE ~ret.ok /\ ret.err = OutOfRange

\* of_seconds accepted the largest offset, 86400
C1_Witness == Called("of_seconds") /\ call.args[1] = 86400 /\ ret.ok

OppositeSigns(h, m) == (h > 0 /\ m < 0) \/ (h < 0 /\ m > 0)
UnitOverflow(h, m) == Abs(h) >= 24 \/ Abs(m) >= 60

\* C2 as stated: of_hours_and_minutes(h, m) fails with SignMismatch iff h and m
\* are nonzero with opposite signs, fails with OutOfRange iff |h| >= 24 or
\* |m| >= 60, and succeeds in every remaining case.
C2_AsStated ==
    Called("of_hours_and_minutes") =>
        LET h == call.args[1]
            m == call.args[2]
        IN  /\ (~ret.ok /\ ret.err = SignMismatch) <=> OppositeSigns(h, m)
            /\ (~ret.ok /\ ret.err = OutOfRange) <=> UnitOverflow(h, m)
            /\ (~OppositeSigns(h, m) /\ ~UnitOverflow(h, m)) => ret.ok

\* C2 amended: of_hours_and_minutes(h, m) fails with SignMismatch iff h and m
\* are nonzero with opposite signs; fails with OutOfRange iff the signs do not
\* differ and |h| >= 24 or |m| >= 60; and succeeds in every remaining case.
C2_SignCheckFirst ==
    Called("of_hours_and_minutes") =>
        LET h == call.args[1]
            m == call.args[2]
        IN  /\ (~ret.ok /\ ret.err = SignMismatch) <=> OppositeSigns(h, m)
            /\ (~ret.ok /\ ret.err = OutOfRange)
                   <=> (~OppositeSigns(h, m) /\ UnitOverflow(h, m))
            /\ ret.ok <=> (~OppositeSigns(h, m) /\ ~UnitOverflow(h, m))

\* of_hours_and_minutes(-30, 70): both out of range and of opposite signs
C2_Witness ==
    /\ Called("of_hours_and_minutes")
    /\ call.args = <<-30, 70>>
    /\ ~ret.ok
    /\ ret.err = SignMismatch

\* C3: every successful of_hours_and_minutes(h, m) returns FixedOffset with
\* offset h*3600 + m*60, so the fields of "+05:30" give 19800 seconds.
C3_OffsetInSeconds ==
    /\ (Called("of_hours_and_minutes") /\ ret.ok) =>
           ret.val = FixedOffset(call.args[1] * 3600 + call.args[2] * 60)
    /\ (Called("from_fields") /\ call.args[1] = Offset("+", <<0, 5>>, Some(<<3, 0>>))) =>
           (ret.ok /\ ret.val = FixedOffset(19800))

\* the instant t seconds lies strictly before the instant of local, compared
\* without loss
Before(t, local) ==
    LET d == t \div 86400
        r == t % 86400
    IN  d < local.days \/ (d = local.days /\ r < local.sod)

\* the instant of a is not after the instant of b
NotAfter(a, b) == a.days < b.days \/ (a.days = b.days /\ a.sod <= b.sod)

Descending(ts) == \A i \in 1..(Len(ts) - 1) : ts[i].timestamp >= ts[i + 1].timestamp
StrictlyDescending(ts) ==
    \A i \in 1..(Len(ts) - 1) : ts[i].timestamp > ts[i + 1].timestamp

\* C4: for a VariableOffset zone with a descending table, adjust returns the
\* local value plus the offset of the transition with the greatest timestamp
\* strictly less than the local value's timestamp, and the local value
\* unchanged when there is no such transition.
C4_GreatestEarlierTransition ==
    (Called("adjust") /\ call.args[1].tag = "VariableOffset"
        /\ Descending(call.args[1].transitions)) =>
        LET ts == call.args[1].transitions
            local == call.args[2]
            earlier == {i \in 1..Len(ts) : Before(ts[i].timestamp, local)}
        IN  IF earlier = {} THEN ret = local
            ELSE \E i \in earlier :
                    /\ \A j \in earlier : ts[j].timestamp <= ts[i].timestamp
                    /\ ret = Plus(local, ts[i].offset)

Count(s, x) == Cardinality({i \in 1..Len(s) : s[i] = x})

\* C5: after zoneinfo loads a decodable table, in whatever file order, the
\* stored sequence is a permutation of the decoded transitions in descending
\* order of timestamp, strictly descending for a well-formed table (one whose
\* transition times are pairwise distinct).
C5_LoadedTableDescending ==
    (Called("zoneinfo") /\ call.args[1].ok) =>
        LET decoded == call.args[1].val
            stored == ret.val.transitions
            distinct == \A i, j \in 1..Len(decoded) :
                            i # j => decoded[i].timestamp # decoded[j].timestamp
        IN  /\ ret.ok
            /\ ret.val.tag = "VariableOffset"
            /\ Len(stored) = Len(decoded)
            /\ \A i \in 1..Len(decoded) :
                   Count(stored, decoded[i]) = Count(decoded, decoded[i])
            /\ Descending(stored)
            /\ distinct => StrictlyDescending(stored)

\* zoneinfo loaded a table of three transitions that the file held in
\* ascending order
C5_Witness ==
    /\ Called("zoneinfo")
    /\ call.args[1].ok
    /\ Len(call.args[1].val) = 3
    /\ call.args[1].val[1].timestamp < call.args[1].val[2].timestamp
    /\ call.args[1].val[2].timestamp < call.args[1].val[3].timestamp
    /\ ret.ok
    /\ ret.val.transitions[1].timestamp = 86400

\* C6: for every local value t and valid offset o, adjust(FixedOffset(o), t)
\* is t + o seconds: the same millisecond, and an instant o seconds later.
C6_FixedOffsetAdds ==
    (Called("adjust") /\ call.args[1].tag = "FixedOffset") =>
        LET o == call.args[1].offset
            t == call.args[2]
        IN  /\ -86400 <= o /\ o <= 86400
            /\ ret.ms = t.ms
            /\ 0 <= ret.sod /\ ret.sod < 86400
            /\ (ret.days - t.days) * 86400 + (ret.sod - t.sod) = o

\* adjust moved the last second of a day into the next day
C6_Witness ==
    /\ Called("adjust")
    /\ call.args[1].tag = "FixedOffset"
    /\ call.args[1].offset = 3
    /\ call.args[2].sod = 86399
    /\ ret.days = call.args[2].days + 1
    /\ ret.sod = 2

\* C7: every accessor of a ZonedDateTime reads its field off
\* adjust(time_zone, local), and a value parsed from "YYYY-MM-DDThh:mm:ss+02:00"
\* has an hour accessor two hours ahead of the hour in the text.
C7_AccessorsReadAdjusted ==
    /\ (pc = "read") =>
           LET a == adjust(call.args[1].time_zone, call.args[1].local)
           IN  /\ call.op = "year" => ret = local_year(a)
               /\ call.op = "month" => ret = local_month(a)
               /\ call.op = "day" => ret = local_day(a)
               /\ call.op = "yearday" => ret = local_yearday(a)
               /\ call.op = "weekday" => ret = local_weekday(a)
               /\ call.op = "hour" => ret = local_hour(a)
               /\ call.op = "minute" => ret = local_minute(a)
               /\ call.op = "second" => ret = local_second(a)
               /\ call.op = "millisecond" => ret = local_millisecond(a)
    /\ (Called("ZonedDateTime_from_str") /\ ret.ok
          /\ call.args[1].val[3] = Offset("+", <<0, 2>>, Some(<<0, 0>>))) =>
           hour(ret.val) = (local_hour(call.args[1].val[2].val) + 2) % 24

\* C8: ZonedDateTime::from_str runs grammar split, date, time, zone in that
\* order and returns the error of the first that fails, tagged by its origin;
\* it returns a ZonedDateTime only when all four succeed.
C8_FirstFailureWins ==
    Called("ZonedDateTime_from_str") =>
        LET input == call.args[1]
            date == input.val[1]
            time == input.val[2]
            zone == from_fields(input.val[3])
        IN  IF ~input.ok
            THEN ~ret.ok /\ ret.err = ParseError_Parse(input.err)
            ELSE IF ~date.ok
            THEN ~ret.ok /\ ret.err = ParseError_Date(date.err)
            ELSE IF ~time.ok
            THEN ~ret.ok /\ ret.err = ParseError_Date(time.err)
            ELSE IF ~zone.ok
            THEN ~ret.ok /\ ret.err.variant \in {"Number", "Zone"} /\ ret.err = zone.err
            ELSE /\ ret.ok
                 /\ ret.val.local = LocalDateTime_new(date.val, time.val)
                 /\ ret.val.time_zone = zone.val

\* from_str was given a bad date and an out-of-range zone, and reported the date
C8_Witness ==
    /\ Called("ZonedDateTime_from_str")
    /\ call.args[1].ok
    /\ ~call.args[1].val[1].ok
    /\ call.args[1].val[2].ok
    /\ call.args[1].val[3] = Offset("+", <<9, 9>>, None)
    /\ ~ret.ok
    /\ ret.err = ParseError_Date("date")

\* the number a digit string denotes
RECURSIVE DigitsValue(_)
DigitsValue(s) ==
    IF s = <<>> THEN 0 ELSE 10 * DigitsValue(SubSeq(s, 1, Len(s) - 1)) + s[Len(s)]

Converts(s) == s # <<>> /\ DigitsValue(s) <= 127

\* C9: from_fields never panics and never returns a zone outside the
\* validated range: Zulu gives UTC; Offset with sign "+" or "-" gives
\* ParseError::Number when a digit string does not convert to an i8,
\* ParseError::Zone(e) when of_hours_and_minutes rejects the signed components
\* with e, and otherwise the zone of_hours_and_minutes made; and
\* ParseError::Zone(SignMismatch) is never returned.
C9_FromFieldsTotal ==
    Called("from_fields") =>
        LET f == call.args[1]
            sgn == IF f.sign = "+" THEN 1 ELSE -1
            h == sgn * DigitsValue(f.hours)
            m == IF f.minutes.some THEN sgn * DigitsValue(f.minutes.val) ELSE 0
            made == of_hours_and_minutes(h, m)
            converts == Converts(f.hours) /\ (f.minutes.some => Converts(f.minutes.val))
        IN  /\ ~ret.ok => ret.err.variant \in {"Number", "Zone"}
            /\ ret.ok => \/ ret.val = UTC
                         \/ /\ ret.val.tag = "FixedOffset"
                            /\ -86400 <= ret.val.offset /\ ret.val.offset <= 86400
            /\ ~(~ret.ok /\ ret.err = ParseError_Zone(SignMismatch))
            /\ IF f.kind = "Zulu" THEN ret.ok /\ ret.val = UTC
               ELSE IF ~converts THEN ~ret.ok /\ ret.err.variant = "Number"
               ELSE IF ~made.ok THEN ~ret.ok /\ ret.err = ParseError_Zone(made.err)
               ELSE ret.ok /\ ret.val = made.val

\* from_fields turned the fields of "-05:30" into a zone
C9_Witness ==
    /\ Called("from_fields")
    /\ call.args[1] = Offset("-", <<0, 5>>, Some(<<3, 0>>))
    /\ ret.ok
    /\ ret.val.tag = "FixedOffset"
    /\ ret.val.offset < 0

\* the transition adjust_variable selects for local
Selected(transitions, local) == find_before(transitions, seconds_as_i32(local))

\* C10: the lookup compares the full 64-bit timestamp: over one descending
\* table the timestamp of the selected transition never decreases as the
\* candidate grows, no transition counting as the least.
C10_SelectionMonotone ==
    (Called("adjust") /\ call.args[1].tag = "VariableOffset"
        /\ Descending(call.args[1].transitions)) =>
        LET ts == call.args[1].transitions
            here == Selected(ts, call.args[2])
        IN  \A l \in Locals :
                NotAfter(l, call.args[2]) =>
                    LET there == Selected(ts, l)
                    IN  there.some =>
                            here.some /\ there.val.timestamp <= here.val.timestamp

====
